---- MODULE Spec2Model ----
(***************************************************************************)
(* Model of the animated background of src/main.js: initThreeBackground,   *)
(* its frame callback tick and its window resize listener.                 *)
(*                                                                         *)
(* Numbers of the program are IEEE doubles; the model keeps them as scaled *)
(* integers:                                                               *)
(*   - a Math.random() draw is u in 0..RandLevels-1, standing for          *)
(*     u/RandLevels;                                                       *)
(*   - the elapsed time is a whole number of clock units; a clock unit is  *)
(*     the time in which a shape of speed 1/(2*RandLevels) rad/s advances  *)
(*     one twelfth of a turn;                                              *)
(*   - the argument of Math.sin is counted in twelfths of a turn, its      *)
(*     value in thousandths;                                               *)
(*   - position.y and initialY are in thousandths of a scene unit;         *)
(*   - globe and point-cloud rotations are in hundredths of a              *)
(*     radian-per-second times a clock unit; shape rotations in units of   *)
(*     0.01/RandLevels rad;                                                *)
(*   - an aspect ratio is the outcome of a double division: a fraction in  *)
(*     lowest terms, or Infinity, or NaN.                                  *)
(***************************************************************************)
EXTENDS Integers, Sequences, FiniteSets, TLC

VARIABLES
    canvasPresent,      \* document.querySelector('#bg-canvas') finds an element
    pc,                 \* position of the script on the single JS thread
    innerWidth,         \* window.innerWidth
    innerHeight,        \* window.innerHeight
    devicePixelRatio,   \* window.devicePixelRatio
    randomSeed,         \* state of Math.random() when the page loads
    scene,              \* entities added to the THREE.Scene / objectsGroup
    camera,             \* PerspectiveCamera: aspect and the aspect its projection matrix was built from
    renderer,           \* WebGLRenderer: width, height, pixelRatio
    globe,              \* globe.rotation.y
    particlesMesh,      \* particlesMesh.rotation.x / .y
    posArray,           \* the Float32Array of point positions
    shapes,             \* the five floating meshes
    clockRunning,       \* THREE.Clock started (its first getElapsedTime call)
    clock,              \* what clock.getElapsedTime() would return now
    elapsedTime,        \* tick's local const elapsedTime (last value read)
    rafPending,         \* callbacks handed to requestAnimationFrame and not yet run
    renders,            \* number of renderer.render calls
    iterations,         \* number of completed runs of tick
    listeners,          \* resize listeners registered on window
    notified,           \* the resize listener has run at least once
    error               \* an exception was thrown

vars == <<canvasPresent, pc, innerWidth, innerHeight, devicePixelRatio, randomSeed,
          scene, camera, renderer, globe, particlesMesh, posArray, shapes,
          clockRunning, clock, elapsedTime, rafPending, renders, iterations,
          listeners, notified, error>>

----------------------------------------------------------------------------
(* Bounds of the model *)

MaxTime == 3            \* clock values 0..MaxTime
MaxIter == 3            \* tick runs at most MaxIter times
RandLevels == 4         \* distinct values of one Math.random() draw
NumSeeds == 2           \* distinct Math.random() states at page load

Widths == {0, 800, 1920}               \* values of window.innerWidth
Heights == {0, 600, 1080}              \* values of window.innerHeight
PixelRatios == {1, 3}                  \* values of window.devicePixelRatio

(* Program constants *)

particlesCount == 700
NumShapes == 5
NumGeometries == 4

----------------------------------------------------------------------------
(* Arithmetic *)

RECURSIVE Gcd(_, _)
Gcd(a, b) == IF b = 0 THEN a ELSE Gcd(b, a % b)

Abs(a) == IF a < 0 THEN -a ELSE a

Min(a, b) == IF a < b THEN a ELSE b

\* w / h as the double division does it: x/0 is Infinity (of x's sign), 0/0 is NaN
Div(w, h) ==
    IF h = 0
    THEN IF w = 0 THEN [kind |-> "NaN", num |-> 0, den |-> 0]
         ELSE [kind |-> "Infinity", num |-> (IF w > 0 THEN 1 ELSE -1), den |-> 0]
    ELSE LET g == Gcd(Abs(w), Abs(h))
             s == IF h < 0 THEN -1 ELSE 1
         IN  [kind |-> "finite", num |-> s * (w \div g), den |-> s * (h \div g)]

NoAspect == [kind |-> "none", num |-> 0, den |-> 0]

\* Math.sin on twelfths of a turn, in thousandths
SinTable == <<0, 500, 866, 1000, 866, 500, 0, -500, -866, -1000, -866, -500>>
Sin(a) == SinTable[(a % 12) + 1]

\* cos and sin of 2*pi*i/5, in thousandths
Cos5 == <<1000, 309, -809, -809, 309>>
Sin5 == <<0, 951, 588, -588, -951>>

\* the k-th Math.random() draw (k = 0, 1, ...) of a page loaded with seed s
Random(s, k) == ((s * 7919 + k * 613 + k * k * 31 + (k \div 7) * 13) % 1009) % RandLevels

----------------------------------------------------------------------------
(* State before construction *)

NoCamera == [fov |-> 0, aspect |-> NoAspect, projAspect |-> NoAspect, positionZ |-> 0]
NoRenderer == [width |-> 0, height |-> 0, pixelRatio |-> 0]

Init ==
    /\ canvasPresent \in BOOLEAN
    /\ pc = "load"
    /\ innerWidth \in Widths \ {0}
    /\ innerHeight \in Heights \ {0}
    /\ devicePixelRatio \in PixelRatios
    /\ randomSeed \in 1..NumSeeds
    /\ scene = {}
    /\ camera = NoCamera
    /\ renderer = NoRenderer
    /\ globe = [rotationY |-> 0]
    /\ particlesMesh = [rotationX |-> 0, rotationY |-> 0]
    /\ posArray = <<>>
    /\ shapes = <<>>
    /\ clockRunning = FALSE
    /\ clock = 0
    /\ elapsedTime = 0
    /\ rafPending = 0
    /\ renders = 0
    /\ iterations = 0
    /\ listeners = 0
    /\ notified = FALSE
    /\ error = FALSE

----------------------------------------------------------------------------
(* Construction: initThreeBackground up to the first call of tick *)

\* if (!canvas) return;
earlyReturnDropped == FALSE
earlyReturn == ~canvasPresent

\* new THREE.PerspectiveCamera(75, innerWidth / innerHeight, 0.1, 1000); position.z = 30
newCamera ==
    [fov |-> 75, aspect |-> Div(innerWidth, innerHeight),
     projAspect |-> Div(innerWidth, innerHeight), positionZ |-> 30]

\* renderer.setSize(innerWidth, innerHeight); renderer.setPixelRatio(Math.min(devicePixelRatio, 2))
newRenderer ==
    [width |-> innerWidth, height |-> innerHeight, pixelRatio |-> Min(devicePixelRatio, 2)]

\* posArray[i] = (Math.random() - 0.5) * 100, for i < particlesCount * 3
newPosArray ==
    [i \in 1..(particlesCount * 3) |->
        ((2 * Random(randomSeed, i - 1) - RandLevels) * 50) \div RandLevels]

\* the mesh of index i (0-based) made by the loop "Create 5 floating shapes";
\* its five draws follow the particlesCount * 3 draws of the point cloud
newShape(i) ==
    LET base   == particlesCount * 3 + 5 * i
        radius == 15 * RandLevels + 5 * Random(randomSeed, base)
        y      == ((2 * Random(randomSeed, base + 1) - RandLevels) * 5000) \div RandLevels
    IN  [geometry |-> i % NumGeometries,
         x  |-> Cos5[i + 1] * radius,
         y  |-> y,
         z  |-> Sin5[i + 1] * radius,
         rotationX |-> 0,
         rotationY |-> 0,
         userData |-> [initialY |-> y,
                       speed    |-> RandLevels + Random(randomSeed, base + 2),
                       offset   |-> (12 * Random(randomSeed, base + 3)) \div RandLevels,
                       rotSpeed |-> 2 * Random(randomSeed, base + 4) - RandLevels]]

SceneEntities == {"objectsGroup", "globe", "particlesMesh", "light", "ambientLight"}

initThreeBackground ==
    /\ pc = "load"
    /\ IF earlyReturn
       THEN /\ pc' = "idle"
            /\ UNCHANGED <<scene, camera, renderer, posArray, shapes, error>>
       ELSE IF ~canvasPresent
       THEN \* new THREE.WebGLRenderer({canvas: null}) throws
            /\ pc' = "idle"
            /\ camera' = newCamera
            /\ error' = TRUE
            /\ UNCHANGED <<scene, renderer, posArray, shapes>>
       ELSE /\ pc' = "tick"
            /\ scene' = SceneEntities
            /\ camera' = newCamera
            /\ renderer' = newRenderer
            /\ posArray' = newPosArray
            /\ shapes' = [i \in 1..NumShapes |-> newShape(i - 1)]
            /\ UNCHANGED error
    /\ UNCHANGED <<canvasPresent, innerWidth, innerHeight, devicePixelRatio, randomSeed,
                   globe, particlesMesh, clockRunning, clock, elapsedTime, rafPending,
                   renders, iterations, listeners, notified>>

constructed == scene # {}

----------------------------------------------------------------------------
(* The animation loop: tick, one step per statement group *)

\* the platform runs the callback handed to requestAnimationFrame
animationFrame ==
    /\ pc = "idle"
    /\ rafPending > 0
    /\ iterations < MaxIter
    /\ rafPending' = rafPending - 1
    /\ pc' = "tick"
    /\ UNCHANGED <<canvasPresent, innerWidth, innerHeight, devicePixelRatio, randomSeed,
                   scene, camera, renderer, globe, particlesMesh, posArray, shapes,
                   clockRunning, clock, elapsedTime, renders, iterations, listeners,
                   notified, error>>

\* const elapsedTime = clock.getElapsedTime();  (the first call starts the clock)
tickRead ==
    /\ pc = "tick"
    /\ elapsedTime' = clock
    /\ clockRunning' = TRUE
    /\ pc' = "animate"
    /\ UNCHANGED <<canvasPresent, innerWidth, innerHeight, devicePixelRatio, randomSeed,
                   scene, camera, renderer, globe, particlesMesh, posArray, shapes,
                   clock, rafPending, renders, iterations, listeners, notified, error>>

\* the time every transform of one iteration is computed from
frameTimeReread == clock
frameTime == elapsedTime

\* globe.rotation.y = elapsedTime * 0.05
globeRotationYAccumulated(t) == globe.rotationY + 5 * t
globeRotationY(t) == 5 * t

\* particlesMesh.rotation.y = -elapsedTime * 0.02; particlesMesh.rotation.x = elapsedTime * 0.01
particlesRotationY(t) == -(2 * t)
particlesRotationX(t) == t

\* the body of shapes.forEach
animateShapeByTime(s, t) ==
    [s EXCEPT !.y = s.userData.initialY
                      + (Sin(t * s.userData.speed + s.userData.offset) * 3) \div 2,
              !.rotationX = t * s.userData.rotSpeed,
              !.rotationY = t * s.userData.rotSpeed]
animateShapeDrift(s, t) ==
    [s EXCEPT !.y = s.y + (Sin(t * s.userData.speed + s.userData.offset) * 3) \div 2,
              !.rotationX = @ + s.userData.rotSpeed,
              !.rotationY = @ + s.userData.rotSpeed]
animateShapeRebase(s, t) ==
    LET y == s.userData.initialY
               + (Sin(t * s.userData.speed + s.userData.offset) * 3) \div 2
    IN  [s EXCEPT !.y = y,
                  !.userData.initialY = y,
                  !.rotationX = @ + s.userData.rotSpeed,
                  !.rotationY = @ + s.userData.rotSpeed]
animateShape(s, t) ==
    [s EXCEPT !.y = s.userData.initialY
                      + (Sin(t * s.userData.speed + s.userData.offset) * 3) \div 2,
              !.rotationX = @ + s.userData.rotSpeed,
              !.rotationY = @ + s.userData.rotSpeed]

tickAnimate ==
    /\ pc = "animate"
    /\ globe' = [globe EXCEPT !.rotationY = globeRotationY(frameTime)]
    /\ particlesMesh' = [rotationX |-> particlesRotationX(frameTime),
                         rotationY |-> particlesRotationY(frameTime)]
    /\ shapes' = [i \in 1..Len(shapes) |-> animateShape(shapes[i], frameTime)]
    /\ pc' = "render"
    /\ UNCHANGED <<canvasPresent, innerWidth, innerHeight, devicePixelRatio, randomSeed,
                   scene, camera, renderer, posArray, clockRunning, clock, elapsedTime,
                   rafPending, renders, iterations, listeners, notified, error>>

\* renderer.render(scene, camera)
tickRender ==
    /\ pc = "render"
    /\ renders' = renders + 1
    /\ pc' = "schedule"
    /\ UNCHANGED <<canvasPresent, innerWidth, innerHeight, devicePixelRatio, randomSeed,
                   scene, camera, renderer, globe, particlesMesh, posArray, shapes,
                   clockRunning, clock, elapsedTime, rafPending, iterations, listeners,
                   notified, error>>

\* window.requestAnimationFrame(tick)
requestAnimationFrameTwice == rafPending + 2
requestAnimationFrame == rafPending + 1

\* the end of tick: the first call returns into initThreeBackground, the others
\* to the event loop
tickSchedule ==
    /\ pc = "schedule"
    /\ rafPending' = requestAnimationFrame
    /\ iterations' = iterations + 1
    /\ pc' = IF listeners = 0 THEN "listen" ELSE "idle"
    /\ UNCHANGED <<canvasPresent, innerWidth, innerHeight, devicePixelRatio, randomSeed,
                   scene, camera, renderer, globe, particlesMesh, posArray, shapes,
                   clockRunning, clock, elapsedTime, renders, listeners, notified, error>>

\* wall-clock time passes, also while a callback runs
clockAdvance ==
    /\ clockRunning
    /\ clock < MaxTime
    /\ clock' = clock + 1
    /\ UNCHANGED <<canvasPresent, pc, innerWidth, innerHeight, devicePixelRatio, randomSeed,
                   scene, camera, renderer, globe, particlesMesh, posArray, shapes,
                   clockRunning, elapsedTime, rafPending, renders, iterations, listeners,
                   notified, error>>

----------------------------------------------------------------------------
(* The resize handler *)

\* window.addEventListener('resize', ...), the last statement of initThreeBackground
addResizeListener ==
    /\ pc = "listen"
    /\ listeners' = listeners + 1
    /\ pc' = "idle"
    /\ UNCHANGED <<canvasPresent, innerWidth, innerHeight, devicePixelRatio, randomSeed,
                   scene, camera, renderer, globe, particlesMesh, posArray, shapes,
                   clockRunning, clock, elapsedTime, rafPending, renders, iterations,
                   notified, error>>

\* the listener's body; it reads the window's new size
resizeListenerSizeOnly ==
    /\ renderer' = [renderer EXCEPT !.width = innerWidth', !.height = innerHeight']
    /\ UNCHANGED <<camera, globe, particlesMesh, shapes, rafPending>>
resizeListenerRepixel ==
    /\ camera' = [camera EXCEPT !.aspect = Div(innerWidth', innerHeight'),
                                !.projAspect = Div(innerWidth', innerHeight')]
    /\ renderer' = [renderer EXCEPT !.width = innerWidth', !.height = innerHeight',
                                    !.pixelRatio = Min(devicePixelRatio', 2)]
    /\ UNCHANGED <<globe, particlesMesh, shapes, rafPending>>
resizeListener ==
    /\ camera' = [camera EXCEPT !.aspect = Div(innerWidth', innerHeight'),
                                !.projAspect = Div(innerWidth', innerHeight')]
    /\ renderer' = [renderer EXCEPT !.width = innerWidth', !.height = innerHeight']
    /\ UNCHANGED <<globe, particlesMesh, shapes, rafPending>>

\* the viewport changes and the platform notifies the registered listeners,
\* between callbacks
windowResize(w, h, d) ==
    /\ pc = "idle"
    /\ innerWidth' = w
    /\ innerHeight' = h
    /\ devicePixelRatio' = d
    /\ IF listeners > 0
       THEN resizeListener /\ notified' = TRUE
       ELSE UNCHANGED <<camera, renderer, globe, particlesMesh, shapes, rafPending, notified>>
    /\ UNCHANGED <<canvasPresent, pc, randomSeed, scene, posArray, clockRunning, clock,
                   elapsedTime, renders, iterations, listeners, error>>

resize == \E w \in Widths, h \in Heights, d \in PixelRatios : windowResize(w, h, d)

----------------------------------------------------------------------------

Next ==
    \/ initThreeBackground
    \/ animationFrame
    \/ tickRead
    \/ tickAnimate
    \/ tickRender
    \/ tickSchedule
    \/ clockAdvance
    \/ addResizeListener
    \/ resize

Spec == Init /\ [][Next]_vars

----------------------------------------------------------------------------
(* Properties *)

\* a is the double w / h, for positive w and h
AspectIs(a, w, h) == a.kind = "finite" /\ a.num > 0 /\ a.num * h = a.den * w

\* initialY + Math.sin(t * speed + offset) * 1.5, in thousandths
FloatY(s, t) ==
    s.userData.initialY + (Sin(t * s.userData.speed + s.userData.offset) * 3) \div 2

\* a step of the animation loop
TickStep == animationFrame \/ tickRead \/ tickAnimate \/ tickRender \/ tickSchedule

\* the script is inside a run of tick
InIteration == pc \in {"tick", "animate", "render", "schedule"}

\* runs of tick that have done their transforms
Animated == IF pc \in {"render", "schedule"} THEN iterations + 1 ELSE iterations

\* C1: on a page without #bg-canvas, initThreeBackground constructs nothing,
\* runs and schedules no iteration, registers no resize listener and throws nothing.
C1_NoCanvasNoSideEffects ==
    ~canvasPresent =>
        /\ pc \in {"load", "idle"}
        /\ scene = {} /\ camera = NoCamera /\ renderer = NoRenderer
        /\ posArray = <<>> /\ shapes = <<>>
        /\ globe.rotationY = 0 /\ ~clockRunning
        /\ iterations = 0 /\ renders = 0 /\ rafPending = 0
        /\ listeners = 0 /\ ~notified
        /\ ~error

\* initialization has returned on a page without canvas, and the window was resized since
C1_Witness == ~canvasPresent /\ pc = "idle" /\ innerWidth = 0 /\ innerHeight = 0

\* C2: whatever resize notifications arrive (zero sizes included), the camera's
\* aspect ratio is never 0, Infinity, NaN or negative.
C2_AspectNeverDegenerate ==
    constructed => camera.aspect.kind = "finite" /\ camera.aspect.num > 0

\* C3: with a positive viewport, the camera aspect is width / height of the latest
\* viewport size and the renderer has that width and height; a step of the
\* animation loop never changes the camera.
C3_AspectTracksViewport ==
    /\ [](constructed /\ innerWidth > 0 /\ innerHeight > 0 =>
            /\ AspectIs(camera.aspect, innerWidth, innerHeight)
            /\ camera.projAspect = camera.aspect
            /\ renderer.width = innerWidth
            /\ renderer.height = innerHeight)
    /\ [][TickStep => camera' = camera]_vars

\* resized from another size to 1920 x 1080 with iterations before it
C3_Witness ==
    /\ notified /\ iterations >= 2 /\ pc = "idle"
    /\ innerWidth = 1920 /\ innerHeight = 1080
    /\ camera.aspect = [kind |-> "finite", num |-> 16, den |-> 9]
    /\ renderer.width = 1920 /\ renderer.height = 1080

\* C4: the renderer's pixel ratio is min(devicePixelRatio, 2) of construction time,
\* and a resize notification changes neither it nor the globe and point-cloud
\* rotations, the shapes, or the pending frame callbacks.
C4_ResizeKeepsAnimationState ==
    /\ [](constructed /\ ~notified => renderer.pixelRatio = Min(devicePixelRatio, 2))
    /\ [](constructed => renderer.pixelRatio \in {1, 2})
    /\ [][resize => /\ renderer'.pixelRatio = renderer.pixelRatio
                    /\ globe' = globe
                    /\ particlesMesh' = particlesMesh
                    /\ shapes' = shapes
                    /\ rafPending' = rafPending
                    /\ elapsedTime' = elapsedTime
                    /\ iterations' = iterations]_vars

\* the listener ran on a window whose devicePixelRatio is no longer the one of construction
C4_Witness ==
    /\ notified /\ iterations >= 1 /\ rafPending = 1
    /\ renderer.pixelRatio = 2 /\ devicePixelRatio = 1
    /\ renderer.width = innerWidth

\* C5: once an iteration has done its transforms, the globe and point-cloud
\* rotations are 0.05 t, -0.02 t and 0.01 t for the t that iteration read.
C5_RotationsFromClockReading ==
    pc # "animate" =>
        /\ globe.rotationY = 5 * elapsedTime
        /\ particlesMesh.rotationY = -2 * elapsedTime
        /\ particlesMesh.rotationX = elapsedTime

\* several iterations, a resize, and time that went on after the last reading
C5_Witness ==
    /\ iterations >= 2 /\ notified /\ pc = "idle"
    /\ elapsedTime >= 1 /\ clock > elapsedTime
    /\ globe.rotationY = 5 * elapsedTime

\* C6: each shape's rotation.x and rotation.y are (number of iterations) * rotSpeed,
\* whatever clock values were read, while its position.y is given by the clock
\* value last read alone.
C6_ShapeRotationCountsIterations ==
    \A i \in 1..Len(shapes) :
        /\ shapes[i].rotationX = Animated * shapes[i].userData.rotSpeed
        /\ shapes[i].rotationY = Animated * shapes[i].userData.rotSpeed
        /\ (pc # "animate" /\ clockRunning => shapes[i].y = FloatY(shapes[i], elapsedTime))

\* the iteration count differs from the elapsed time, and a shape with a
\* non-zero rate has turned
C6_Witness ==
    /\ pc = "idle" /\ iterations = 3 /\ elapsedTime = 1
    /\ \E i \in 1..Len(shapes) :
           shapes[i].userData.rotSpeed # 0 /\ shapes[i].rotationX = 3 * shapes[i].userData.rotSpeed
    /\ \E i \in 1..Len(shapes) : shapes[i].userData.rotSpeed = 0 /\ shapes[i].rotationX = 0

\* C7: each shape's position.y stays within 1.5 of its initialY, and after an
\* iteration that read t it is initialY + 1.5 sin(speed t + offset).
C7_ShapeYBoundedSine ==
    \A i \in 1..Len(shapes) :
        /\ shapes[i].y >= shapes[i].userData.initialY - 1500
        /\ shapes[i].y <= shapes[i].userData.initialY + 1500
        /\ (pc # "animate" /\ clockRunning =>
                shapes[i].y = shapes[i].userData.initialY
                    + (3 * Sin(elapsedTime * shapes[i].userData.speed
                               + shapes[i].userData.offset)) \div 2)
        /\ (~clockRunning => shapes[i].y = shapes[i].userData.initialY)

\* after several iterations a shape is at an extreme of its range
C7_Witness ==
    /\ iterations >= 2 /\ pc = "idle"
    /\ \E i \in 1..Len(shapes) : Abs(shapes[i].y - shapes[i].userData.initialY) = 1500
    /\ \E i \in 1..Len(shapes) : Abs(shapes[i].y - shapes[i].userData.initialY) \in {750, 1299}

\* C8: after construction no step changes a shape's userData, x, z or geometry or
\* any of the 2100 point positions; of the camera and the renderer only the
\* aspect and the size change.
C8_ConstructionValuesImmutable ==
    /\ [](constructed => Len(posArray) = 2100 /\ Len(shapes) = 5)
    /\ [][constructed =>
            /\ posArray' = posArray
            /\ Len(shapes') = Len(shapes)
            /\ \A i \in 1..Len(shapes) :
                   /\ shapes'[i].userData = shapes[i].userData
                   /\ shapes'[i].x = shapes[i].x
                   /\ shapes'[i].z = shapes[i].z
                   /\ shapes'[i].geometry = shapes[i].geometry
            /\ scene' = scene
            /\ camera'.fov = camera.fov
            /\ camera'.positionZ = camera.positionZ
            /\ renderer'.pixelRatio = renderer.pixelRatio]_vars

\* iterations and a resize have gone by, and a shape has left its initial height
C8_Witness ==
    /\ iterations >= 2 /\ notified /\ Len(posArray) = 2100
    /\ \E i \in 1..Len(shapes) :
           shapes[i].y # shapes[i].userData.initialY /\ shapes[i].rotationX # 0

\* C9: once started, one frame callback is pending between iterations and none
\* inside an iteration; every iteration renders once; a pending callback only
\* goes away by being run.
C9_OneCallbackPending ==
    /\ [](constructed =>
            /\ (pc \in {"listen", "idle"} => rafPending = 1 /\ renders = iterations)
            /\ (InIteration => rafPending = 0)
            /\ renders = (IF pc = "schedule" THEN iterations + 1 ELSE iterations))
    /\ [][rafPending' < rafPending => pc = "idle" /\ pc' = "tick"]_vars
    /\ [][renders' # renders => renders' = renders + 1 /\ pc = "render"]_vars

\* the loop has run several times with a resize in between and waits for the next frame
C9_Witness ==
    /\ pc = "idle" /\ iterations >= 2 /\ renders = iterations /\ rafPending = 1 /\ notified

\* C10: the window, the camera and the renderer do not change inside an
\* iteration; at each render the camera aspect, its projection and the renderer
\* size come from the same viewport size, and every transform comes from the
\* clock value the iteration read.
C10_RenderSeesConsistentState ==
    /\ [](pc = "render" =>
            /\ renderer.width = innerWidth /\ renderer.height = innerHeight
            /\ camera.projAspect = camera.aspect
            /\ (renderer.width > 0 /\ renderer.height > 0 =>
                    AspectIs(camera.aspect, renderer.width, renderer.height))
            /\ globe.rotationY = 5 * elapsedTime
            /\ particlesMesh.rotationY = -2 * elapsedTime
            /\ particlesMesh.rotationX = elapsedTime
            /\ \A i \in 1..Len(shapes) : shapes[i].y = FloatY(shapes[i], elapsedTime))
    /\ [][InIteration => UNCHANGED <<innerWidth, innerHeight, devicePixelRatio,
                                     camera, renderer>>]_vars

\* a render after a resize, with the clock already past the value the iteration read
C10_Witness ==
    /\ pc = "render" /\ notified /\ iterations >= 1
    /\ clock > elapsedTime /\ elapsedTime >= 1
    /\ innerWidth > 0 /\ innerHeight > 0

====
